---------------------------- MODULE Spec2Model ----------------------------
(***************************************************************************)
(* A model of the SSH piper of src/ssh/sshpiper.go: NewSSHPiperConn (the   *)
(* downstream handshake, the optional keyboard-interactive challenge,      *)
(* FindUpstream, the upstream handshake), the auth relay (pipeAuth and     *)
(* processAuthMsg with the publickey re-sign protocol) and the packet pipe *)
(* (loop, piping, Close).                                                  *)
(*                                                                         *)
(* A packet is a sequence of wire items.  Every item is a record with the  *)
(* same three fields: t (the kind: "byte", "string" or "sig"), v (the byte *)
(* or string value) and s (the signature, NoSig unless t = "sig").         *)
(***************************************************************************)
EXTENDS Integers, Sequences, FiniteSets, TLC

(***************************************************************************)
(* Bounds of the model.                                                    *)
(***************************************************************************)
\* number of downstream auth requests the relay reads after the first one
MaxReqs == 1
\* number of packets each peer sends during the packet pipe
MaxPipePkts == 2
\* number of calls of SSHPiperConn.Close by the owner of the pipe
MaxClose == 1
\* number of requests the challenge loop reads
MaxChallengeReads == 2
\* number of calls of AddHostKey on one config
MaxAdds == 3

(***************************************************************************)
(* Message numbers and names of the ssh package, as symbolic strings.      *)
(***************************************************************************)
msgUserAuthRequest == "SSH_MSG_USERAUTH_REQUEST"
msgUserAuthFailure == "SSH_MSG_USERAUTH_FAILURE"
msgUserAuthSuccess == "SSH_MSG_USERAUTH_SUCCESS"
msgUserAuthBanner == "SSH_MSG_USERAUTH_BANNER"
msgUserAuthPubKeyOk == "SSH_MSG_USERAUTH_PK_OK"
msgIgnore == "SSH_MSG_IGNORE"
serviceSSH == "ssh-connection"

\* the session identifiers of the two transports: each from its own key exchange
DownSessionID == "H_down"
UpSessionID == "H_up"

(***************************************************************************)
(* Keys.  K_down and K_other are held by the downstream client, K_up is    *)
(* the key of the Signer MapPublicKey returns.                             *)
(***************************************************************************)
DownKeys == {"K_down", "K_other"}
Signers == {"K_up"}
Keys == DownKeys \cup Signers

\* PublicKey.Type()
KeyType(k) == IF k = "K_up" THEN "ssh-ed25519" ELSE "ssh-rsa"

\* PublicKey.Marshal(): the wire encoding of a key
MarshalKey(k) ==
    CASE k = "K_down" -> "blob(K_down)"
      [] k = "K_other" -> "blob(K_other)"
      [] k = "K_up" -> "blob(K_up)"

NoKey == "nil"

\* ParsePublicKey: the key of a wire encoding, NoKey (an error) for any other blob
ParsePublicKey(blob) ==
    IF \E k \in Keys : MarshalKey(k) = blob
    THEN CHOOSE k \in Keys : MarshalKey(k) = blob
    ELSE NoKey

\* the allow-list of algorithms
isAcceptableAlgo(algo) == algo \in {"ssh-rsa", "ssh-ed25519"}

(***************************************************************************)
(* Signatures.  A signature records who made it (By) and the data signed:  *)
(* the blob of buildDataSignedForAuth.                                     *)
(***************************************************************************)
NoSig ==
    [Format |-> "", By |-> "", Session |-> "", User |-> "", Service |-> "",
     Method |-> "", Algo |-> "", PubKey |-> ""]

\* buildDataSignedForAuth(sessionId, req, algo, pubKey)
buildDataSignedForAuth(session, req, algo, pubKey) ==
    [Session |-> session, User |-> req.User, Service |-> req.Service,
     Method |-> req.Method, Algo |-> algo, PubKey |-> pubKey]

\* Signer.Sign(rand, data), for the signer holding the private key of k
Sign(k, data) ==
    [Format |-> KeyType(k), By |-> k, Session |-> data.Session,
     User |-> data.User, Service |-> data.Service, Method |-> data.Method,
     Algo |-> data.Algo, PubKey |-> data.PubKey]

\* PublicKey.Verify(data, sig): TRUE when no error is returned
Verify(k, data, sig) ==
    /\ sig.Format = KeyType(k)
    /\ sig.By = k
    /\ sig.Session = data.Session
    /\ sig.User = data.User
    /\ sig.Service = data.Service
    /\ sig.Method = data.Method
    /\ sig.Algo = data.Algo
    /\ sig.PubKey = data.PubKey

(***************************************************************************)
(* Wire items and the codec.                                               *)
(***************************************************************************)
Byte(b) == [t |-> "byte", v |-> b, s |-> NoSig]
Str(x) == [t |-> "string", v |-> x, s |-> NoSig]
SigItem(sig) == [t |-> "sig", v |-> "", s |-> sig]

\* the rest of a sequence from position n on
Rest(q, n) == SubSeq(q, n, Len(q))

\* parseString: a string at the head of the payload, and the rest
parseString(payload) ==
    IF Len(payload) >= 1 /\ payload[1].t = "string"
    THEN [ok |-> TRUE, v |-> payload[1].v, rest |-> Tail(payload)]
    ELSE [ok |-> FALSE, v |-> "", rest |-> payload]

\* parseSignature: a signature at the head of the payload, and the rest
parseSignature(payload) ==
    IF Len(payload) >= 1 /\ payload[1].t = "sig"
    THEN [ok |-> TRUE, sig |-> payload[1].s, rest |-> Tail(payload)]
    ELSE [ok |-> FALSE, sig |-> NoSig, rest |-> payload]

\* Marshal(&userAuthRequestMsg{...}): type byte, three strings, the payload
MarshalUserAuthRequest(msg) ==
    <<Byte(msgUserAuthRequest), Str(msg.User), Str(msg.Service), Str(msg.Method)>>
        \o msg.Payload

\* Marshal(&publickeyAuthMsg{...})
MarshalPublickeyAuthMsg(m) ==
    <<Byte(msgUserAuthRequest), Str(m.User), Str(m.Service), Str(m.Method),
      Byte(IF m.HasSig THEN "1" ELSE "0"), Str(m.Algoname), Str(m.PubKey)>>
        \o m.Sig

NoMsg == [User |-> "", Service |-> "", Method |-> "nil", Payload |-> <<>>]

\* Unmarshal(packet, &userAuthRequestMsg): ok is FALSE when Unmarshal fails
UnmarshalUserAuthRequest(packet) ==
    IF /\ Len(packet) >= 4
       /\ packet[1] = Byte(msgUserAuthRequest)
       /\ \A i \in 2..4 : packet[i].t = "string"
    THEN [ok |-> TRUE,
          msg |-> [User |-> packet[2].v, Service |-> packet[3].v,
                   Method |-> packet[4].v, Payload |-> Rest(packet, 5)]]
    ELSE [ok |-> FALSE, msg |-> NoMsg]

\* noneAuthMsg(user)
noneAuthMsg(user) ==
    [User |-> user, Service |-> serviceSSH, Method |-> "none", Payload |-> <<>>]

\* parsePublicKeyMsg: err is TRUE when an error is returned.  The payload of a
\* publickey request begins with a byte item whenever it is not empty.
parsePublicKeyMsg(userAuthReq) ==
    LET fail == [err |-> TRUE, key |-> NoKey, isQuery |-> FALSE, sig |-> NoSig]
        payload == userAuthReq.Payload
    IN  IF userAuthReq.Method # "publickey" THEN fail
        ELSE IF Len(payload) < 1 THEN fail
        ELSE
        LET isQuery == payload[1].v = "0"
            a == parseString(Tail(payload))
        IN  IF ~a.ok THEN fail
            ELSE IF ~isAcceptableAlgo(a.v) THEN fail
            ELSE
            LET k == parseString(a.rest)
            IN  IF ~k.ok THEN fail
                ELSE IF ParsePublicKey(k.v) = NoKey THEN fail
                ELSE IF isQuery
                THEN [err |-> FALSE, key |-> ParsePublicKey(k.v),
                      isQuery |-> TRUE, sig |-> NoSig]
                ELSE
                LET g == parseSignature(k.rest)
                IN  IF ~g.ok \/ Len(g.rest) > 0 THEN fail
                    ELSE [err |-> FALSE, key |-> ParsePublicKey(k.v),
                          isQuery |-> FALSE, sig |-> g.sig]

(***************************************************************************)
(* What the peers and the callbacks can supply.                            *)
(***************************************************************************)
DownUsers == {"alice"}
\* the user names FindUpstream returns ("" means: use the downstream user)
UpstreamNames == {"", "root"}

\* the blob a downstream client signs for its own publickey request
DownSignedData(user, k, session) ==
    buildDataSignedForAuth(session,
        [User |-> user, Service |-> serviceSSH, Method |-> "publickey"],
        KeyType(k), MarshalKey(k))

\* signatures a downstream client can make: it holds only the downstream
\* keys.  The good one, one over the wrong session identifier, one by another
\* key and one of a format that is not on the allow-list
DownSigs(user) ==
    { Sign("K_down", DownSignedData(user, "K_down", sid)) :
        sid \in {DownSessionID, UpSessionID} }
    \cup { Sign("K_other", DownSignedData(user, "K_down", DownSessionID)),
           [Sign("K_down", DownSignedData(user, "K_down", DownSessionID))
              EXCEPT !.Format = "ssh-foo"] }

\* payloads of publickey requests, well formed and not
PublicKeyPayloads(user) ==
    LET algo == Str(KeyType("K_down"))
        blob == Str(MarshalKey("K_down"))
    IN  { <<Byte("0"), algo, blob>> }
        \cup { <<Byte("1"), algo, blob, SigItem(g)>> : g \in DownSigs(user) }
        \cup { <<>>,
               <<Byte("1"), algo, blob>>,
               <<Byte("0"), Str("ssh-foo"), blob>> }
        \cup { <<Byte("0"), algo, blob, Byte("7")>>,
               <<Byte("2"), algo, blob,
                 SigItem(Sign("K_down", DownSignedData(user, "K_down", DownSessionID)))>>,
               <<Byte("1"), algo, blob,
                 SigItem(Sign("K_down", DownSignedData(user, "K_down", DownSessionID))),
                 Byte("7")>> }

\* the auth requests a downstream client can send
DownRequests ==
    { [User |-> u, Service |-> serviceSSH, Method |-> "none", Payload |-> <<>>] :
        u \in DownUsers }
    \cup { [User |-> u, Service |-> serviceSSH, Method |-> "password",
            Payload |-> <<Byte("0"), Str("secret")>>] : u \in DownUsers }
    \cup { [User |-> u, Service |-> serviceSSH, Method |-> "keyboard-interactive",
            Payload |-> <<Str(""), Str("")>>] : u \in DownUsers }
    \cup { [User |-> u, Service |-> "ssh-userauth", Method |-> "none",
            Payload |-> <<>>] : u \in DownUsers }
    \cup UNION { { [User |-> u, Service |-> serviceSSH, Method |-> "publickey",
                    Payload |-> p] : p \in PublicKeyPayloads(u) } : u \in DownUsers }

\* what readPacket on the downstream transport returns during auth
DownReads ==
    { [err |-> FALSE, packet |-> MarshalUserAuthRequest(r)] : r \in DownRequests }
    \cup { [err |-> FALSE, packet |-> <<Byte(msgIgnore)>>],
           [err |-> TRUE, packet |-> <<>>] }

\* what readPacket on the upstream transport returns during the auth relay
UpReads ==
    { [err |-> FALSE, packet |-> <<Byte(m)>>] :
        m \in {msgUserAuthSuccess, msgUserAuthFailure, msgUserAuthBanner,
               msgUserAuthPubKeyOk} }
    \cup { [err |-> TRUE, packet |-> <<>>] }

\* what MapPublicKey returns
MapResults ==
    { [err |-> FALSE, signer |-> k] : k \in Signers }
    \cup { [err |-> FALSE, signer |-> NoKey], [err |-> TRUE, signer |-> NoKey] }

\* what validateKey does: the probe is not written, or it is written and the
\* upstream accepts the key, rejects it, or the read of the answer fails
ProbeOutcomes == {"writeError", "ack", "reject", "readError"}

(***************************************************************************)
(* The per-message transform of the auth relay.                            *)
(***************************************************************************)
\* the query-form request validateKey writes to the upstream transport
validateKeyProbe(key, user) ==
    MarshalPublickeyAuthMsg(
        [User |-> user, Service |-> serviceSSH, Method |-> "publickey",
         HasSig |-> FALSE, Algoname |-> KeyType(key), PubKey |-> MarshalKey(key),
         Sig |-> <<>>])

\* userAuthPubKeyOkMsg marshalled
MarshalPubKeyOk(algo, pubKey) == <<Byte(msgUserAuthPubKeyOk), Str(algo), Str(pubKey)>>

\* checkPublicKey: TRUE when the downstream signature is accepted
checkPublicKey(msg, pubkey, sig) ==
    IF ~isAcceptableAlgo(sig.Format) THEN FALSE
    ELSE Verify(pubkey,
                buildDataSignedForAuth(DownSessionID, msg, KeyType(pubkey),
                                       MarshalKey(pubkey)),
                sig)

\* signAgain with the slip of rewriting the user only and keeping the payload
signAgain_KeepPayload(user, msg, signer, signOk) ==
    IF ~signOk THEN [msg |-> NoMsg, err |-> TRUE]
    ELSE [msg |-> [msg EXCEPT !.User = user], err |-> FALSE]

\* signAgain with the slip of signing over the downstream session identifier
signAgain_DownSession(user, msg, signer, signOk) ==
    LET upKeyData == MarshalKey(signer)
        sign == Sign(signer,
                     buildDataSignedForAuth(DownSessionID,
                         [User |-> user, Service |-> serviceSSH,
                          Method |-> "publickey"],
                         KeyType(signer), upKeyData))
    IN  IF ~signOk THEN [msg |-> NoMsg, err |-> TRUE]
        ELSE [msg |-> [User |-> user, Service |-> serviceSSH, Method |-> "publickey",
                       Payload |-> <<Byte("1"), Str(KeyType(signer)), Str(upKeyData),
                                     SigItem(sign)>>],
              err |-> FALSE]

\* signAgain: the request rebuilt with the signer's key and signature; err is
\* TRUE, and msg the nil of the source, when signer.Sign returns an error
signAgain(user, msg, signer, signOk) ==
    LET upKey == signer
        upKeyData == MarshalKey(upKey)
        sign == Sign(signer,
                     buildDataSignedForAuth(UpSessionID,
                         [User |-> user, Service |-> serviceSSH,
                          Method |-> "publickey"],
                         KeyType(upKey), upKeyData))
        pubkeyMsg == [User |-> user, Service |-> serviceSSH,
                      Method |-> "publickey", HasSig |-> TRUE,
                      Algoname |-> KeyType(upKey), PubKey |-> upKeyData,
                      Sig |-> <<SigItem(sign)>>]
    IN  IF ~signOk THEN [msg |-> NoMsg, err |-> TRUE]
        ELSE [msg |-> UnmarshalUserAuthRequest(MarshalPublickeyAuthMsg(pubkeyMsg)).msg,
              err |-> FALSE]

\* The outcome of a transform: msg is NoMsg for the nil of the source; probe
\* is the packet validateKey wrote to upstream and ack the packet written to
\* downstream (<<>> when none was written); mapCalled tells whether
\* MapPublicKey was invoked; validated is what validateKey did ("none" when
\* it was not called).
Outcome(msg, err, probe, ack, mapCalled, validated) ==
    [msg |-> msg, err |-> err, probe |-> probe, ack |-> ack, mapCalled |-> mapCalled,
     validated |-> validated]

\* validAndAck with the slip of acknowledging the substitute key
validAndAck_AckUpKey(user, upKey, downKey, probeOutcome, ackOk) ==
    LET probe == IF probeOutcome = "writeError" THEN <<>>
                 ELSE validateKeyProbe(upKey, user)
    IN  IF probeOutcome = "ack"
        THEN IF ~ackOk
             THEN Outcome(NoMsg, TRUE, probe, <<>>, TRUE, probeOutcome)
             ELSE Outcome(NoMsg, FALSE, probe,
                          MarshalPubKeyOk(KeyType(upKey), MarshalKey(upKey)), TRUE,
                          probeOutcome)
        ELSE Outcome(noneAuthMsg(user), FALSE, probe, <<>>, TRUE, probeOutcome)

\* validAndAck with the slip of failing when the upstream rejects the key
validAndAck_RejectFails(user, upKey, downKey, probeOutcome, ackOk) ==
    LET probe == IF probeOutcome = "writeError" THEN <<>>
                 ELSE validateKeyProbe(upKey, user)
    IN  IF probeOutcome = "ack"
        THEN IF ~ackOk
             THEN Outcome(NoMsg, TRUE, probe, <<>>, TRUE, probeOutcome)
             ELSE Outcome(NoMsg, FALSE, probe,
                          MarshalPubKeyOk(KeyType(downKey), MarshalKey(downKey)), TRUE,
                          probeOutcome)
        ELSE Outcome(NoMsg, TRUE, probe, <<>>, TRUE, probeOutcome)

\* validAndAck, given what validateKey and the write of PK_OK do
validAndAck(user, upKey, downKey, probeOutcome, ackOk) ==
    LET probe == IF probeOutcome = "writeError" THEN <<>>
                 ELSE validateKeyProbe(upKey, user)
        ok == probeOutcome = "ack"
    IN  IF ok
        THEN IF ~ackOk
             THEN Outcome(NoMsg, TRUE, probe, <<>>, TRUE, probeOutcome)
             ELSE Outcome(NoMsg, FALSE, probe,
                          MarshalPubKeyOk(KeyType(downKey), MarshalKey(downKey)), TRUE,
                          probeOutcome)
        ELSE Outcome(noneAuthMsg(user), FALSE, probe, <<>>, TRUE, probeOutcome)

\* the pass-through test with the slip of testing the callback only
passThrough_CallbackOnly(msg, hasMapPublicKey) == ~hasMapPublicKey

\* line 180: only publickey requests are looked at, and only when
\* MapPublicKey is configured
passThrough(msg, hasMapPublicKey) ==
    msg.Method # "publickey" \/ ~hasMapPublicKey

\* processAuthMsg, the closure of NewSSHPiperConn, given whether MapPublicKey
\* is configured, what it returns, what the upstream probe does and whether
\* signer.Sign succeeds.  In the signed branch "ok, err := p.checkPublicKey"
\* declares a new err for that block, so the err signAgain returns is
\* assigned to the block's err and the final "if err != nil" tests the err of
\* MapPublicKey, which is nil there.
processAuthMsg(msg, mapped, hasMapPublicKey, mapResult, probeOutcome, ackOk, signOk) ==
    IF passThrough(msg, hasMapPublicKey)
    THEN Outcome([msg EXCEPT !.User = mapped], FALSE, <<>>, <<>>, FALSE, "none")
    ELSE
    LET user == msg.User
        parsed == parsePublicKeyMsg(msg)
        downKey == parsed.key
        signer == mapResult.signer
        outerErr == mapResult.err
    IN  IF parsed.err THEN Outcome(NoMsg, TRUE, <<>>, <<>>, FALSE, "none")
        ELSE IF mapResult.err \/ signer = NoKey
        THEN Outcome(noneAuthMsg(user), FALSE, <<>>, <<>>, TRUE, "none")
        ELSE IF parsed.isQuery
        THEN validAndAck(mapped, signer, downKey, probeOutcome, ackOk)
        ELSE IF ~checkPublicKey(msg, downKey, parsed.sig)
        THEN Outcome(noneAuthMsg(user), FALSE, <<>>, <<>>, TRUE, "none")
        ELSE Outcome(signAgain(mapped, msg, signer, signOk).msg, outerErr,
                     <<>>, <<>>, TRUE, "none")

\* nextAuthMsg, given what readPacket returns: err is TRUE on an error
nextAuthMsg(rd) ==
    LET u == UnmarshalUserAuthRequest(rd.packet)
    IN  IF rd.err THEN [err |-> TRUE, msg |-> NoMsg]
        ELSE IF ~u.ok THEN [err |-> TRUE, msg |-> NoMsg]
        ELSE IF u.msg.Service # serviceSSH THEN [err |-> TRUE, msg |-> NoMsg]
        ELSE [err |-> FALSE, msg |-> u.msg]

(***************************************************************************)
(* The state.                                                              *)
(***************************************************************************)
VARIABLES
    piper,              \* the SSHPiperConfig: which callbacks are configured
    pc,                 \* the position of NewSSHPiperConn
    ret,                \* what NewSSHPiperConn returned: "none" yet, "pipe", "error"
    userAuthReq,        \* the userAuthReq of NewSSHPiperConn's function scope
    dUser,              \* d.user
    mappedUser,         \* mappedUser
    userAuthMsg,        \* the userAuthMsg of pipeAuth (NoMsg stands for nil)
    packet,             \* the packet pipeAuth read from upstream
    downClosed,         \* the downstream socket is closed
    upOpened,           \* FindUpstream returned a connection
    upClosed,           \* the upstream socket is closed
    upLast,             \* the last packet written to the upstream transport during auth
    downLast,           \* the last packet written to the downstream transport during auth
    findUpstreamCalls,  \* number of calls of FindUpstream
    challengeResult,    \* what AdditionalChallenge returned: "none" yet, "true", "false", "error"
    downReq,            \* the downstream request the relay is handling, as it was read
    relay,              \* counters of the auth relay, see RelayInit
    chal,               \* what the challenge loop read and wrote, see ChalInit
    added,              \* the keys given to AddHostKey so far, in order
    loopPc,             \* the position of loop: "idle", "waiting", "returned"
    copier,             \* the two goroutines of loop: position and packet held
    c,                  \* the senders waiting on the channel c of loop, in order
    reported,           \* every error sent on c so far, in order
    waitErr,            \* what Wait returned
    pipeRead,           \* per transport: the packets read from it during the pipe
    pipeWritten,        \* per transport: the packets written to it during the pipe
    closeCalls,         \* number of calls of SSHPiperConn.Close
    closedAgain         \* Close was called after Wait returned

frameVars == <<pc, ret, userAuthReq, dUser, mappedUser, userAuthMsg, packet>>
sockVars == <<downClosed, upOpened, upClosed>>
authVars == <<upLast, downLast, findUpstreamCalls, challengeResult, downReq, relay>>
pipeVars == <<loopPc, copier, c, reported, waitErr, pipeRead, pipeWritten,
              closeCalls, closedAgain>>
vars == <<piper, added, frameVars, sockVars, authVars, chal, pipeVars>>

Dirs == {"toUp", "toDown"}
Transports == {"up", "down"}
NoErr == <<>>
NoPkt == [origin |-> "nil", n |-> 0]

\* relay.nRead: downstream requests read by pipeAuth; relay.cur: the index of
\* the downstream request being handled; relay.fwd: the index of the request
\* whose transform was last written to upstream; relay.answers: packets
\* written to downstream for the request being handled; relay.outstanding:
\* requests written to upstream whose reply has not been read;
\* relay.mapCalls: calls of MapPublicKey for the request being handled;
\* relay.signer: the signer MapPublicKey returned for it ("none" when it was
\* not called, NoKey for no signer or an error); relay.probe: what
\* validateKey did for it ("none" when it was not called); relay.xform: what
\* processAuthMsg returned for it ("none" yet, "forward" for a message,
\* "handled" for (nil, nil), "fail" for an error)
RelayInit ==
    [nRead |-> 0, cur |-> 1, fwd |-> 0, answers |-> 0, outstanding |-> 0,
     mapCalls |-> 0, signer |-> "none", probe |-> "none", xform |-> "none"]

\* chal.readNo: downstream requests read by NewSSHPiperConn before the relay
\* (the first is number 1); chal.outerNo: the number of the request held in
\* the userAuthReq of the function scope; chal.lastMethod: the method of the
\* request read last; chal.failed: the numbers of the requests answered with
\* the failure that asks for keyboard-interactive; chal.failedKI: those of
\* them whose method was keyboard-interactive; chal.calls: calls of
\* AdditionalChallenge
ChalInit ==
    [readNo |-> 0, outerNo |-> 0, lastMethod |-> "nil", failed |-> {},
     failedKI |-> {}, calls |-> 0]

\* the host keys a program can add: Signers of three algorithms, two of each
HostKeyTypes == {"ssh-rsa", "ssh-ed25519", "ecdsa-sha2-nistp256"}
HostKeyPool == [type : HostKeyTypes, id : {"a", "b"}]

\* AddHostKey with the slip of appending always
AddHostKey_AlwaysAppend(hostKeys, key) == Append(hostKeys, key)

\* AddHostKey, lines 76-85: the first entry of the same algorithm is
\* overwritten, else the key is appended
AddHostKey(hostKeys, key) ==
    LET same == { i \in 1..Len(hostKeys) : hostKeys[i].type = key.type }
    IN  IF same # {}
        THEN LET i == CHOOSE i \in same : \A j \in same : i <= j
             IN  [hostKeys EXCEPT ![i] = key]
        ELSE Append(hostKeys, key)

\* the state of a connection before NewSSHPiperConn has done anything
ConnInit ==
    /\ pc = "newDownstream"
    /\ ret = "none"
    /\ userAuthReq = NoMsg
    /\ dUser = ""
    /\ mappedUser = ""
    /\ userAuthMsg = NoMsg
    /\ packet = <<>>
    /\ downClosed = FALSE
    /\ upOpened = FALSE
    /\ upClosed = FALSE
    /\ upLast = <<>>
    /\ downLast = <<>>
    /\ findUpstreamCalls = 0
    /\ challengeResult = "none"
    /\ downReq = NoMsg
    /\ relay = RelayInit
    /\ chal = ChalInit
    /\ loopPc = "idle"
    /\ copier = [d \in Dirs |-> [pc |-> "idle", p |-> NoPkt]]
    /\ c = <<>>
    /\ reported = <<>>
    /\ waitErr = NoErr
    /\ pipeRead = [t \in Transports |-> <<>>]
    /\ pipeWritten = [t \in Transports |-> <<>>]
    /\ closeCalls = 0
    /\ closedAgain = FALSE

\* a config with one host key and any choice of callbacks, and no connection
\* yet
Init ==
    /\ \E key \in HostKeyPool :
          /\ key.type = "ssh-rsa"
          /\ key.id = "a"
          /\ added = <<key>>
          /\ piper \in [AdditionalChallenge : BOOLEAN, MapPublicKey : BOOLEAN,
                        hostKeys : {AddHostKey(<<>>, key)}]
    /\ ConnInit

(***************************************************************************)
(* NewSSHPiperConn.                                                        *)
(***************************************************************************)
\* the test of line 134 with the slip of taking any method
challengeSatisfied_AnyMethod(method) == TRUE

\* line 134: the request read in the loop asks for keyboard-interactive
challengeSatisfied(method) == method = "keyboard-interactive"

\* the deferred func of lines 103-107: d.Close() when pipe is nil
deferCloseDownstream(pipeIsNil, closed) == IF pipeIsNil THEN TRUE ELSE closed

\* the deferred func of lines 166-170 with the slip of never closing
deferCloseUpstream_Never(pipeIsNil, closed) == closed

\* the deferred func of lines 166-170: u.Close() when pipe is nil
deferCloseUpstream(pipeIsNil, closed) == IF pipeIsNil THEN TRUE ELSE closed

\* "return nil, err" after d was made; uMade tells whether u was made too
ReturnError(uMade) ==
    /\ pc' = "done"
    /\ ret' = "error"
    /\ downClosed' = deferCloseDownstream(TRUE, downClosed)
    /\ upClosed' = IF uMade THEN deferCloseUpstream(TRUE, upClosed) ELSE upClosed

\* the failure message of lines 120-122
challengeFailureMsg ==
    <<Byte(msgUserAuthFailure), Str("keyboard-interactive"), Byte("0")>>

\* lines 142-148 with the slip of testing the error only
challengePassed_ErrOnly(ok, err) == ~err

\* lines 142-148: the challenge lets the session go on
challengePassed(ok, err) == ~err /\ ok

\* line 412 with the slip of taking everything but a failure for success
isSuccess_NotFailure(pkt) == pkt[1] # Byte(msgUserAuthFailure)

\* line 412: success := packet[0] == msgUserAuthSuccess
isSuccess(pkt) == pkt[1] = Byte(msgUserAuthSuccess)

\* newDownstream, lines 96-102 and 448-463
NewDownstream ==
    /\ pc = "newDownstream"
    /\ \E ok \in BOOLEAN :
         IF ok
         THEN /\ pc' = "firstAuthMsg"
              /\ UNCHANGED <<ret, downClosed>>
         ELSE /\ pc' = "done"
              /\ ret' = "error"
              /\ downClosed' = TRUE
    /\ UNCHANGED <<piper, added, chal, userAuthReq, dUser, mappedUser, userAuthMsg, packet,
                   upOpened, upClosed, authVars, pipeVars>>

\* lines 109-117: the first auth request
FirstAuthMsg ==
    /\ pc = "firstAuthMsg"
    /\ \E rd \in DownReads :
         LET r == nextAuthMsg(rd)
         IN  IF r.err
             THEN /\ ReturnError(FALSE)
                  /\ UNCHANGED <<userAuthReq, dUser, chal>>
             ELSE /\ userAuthReq' = r.msg
                  /\ dUser' = r.msg.User
                  /\ chal' = [chal EXCEPT !.readNo = 1, !.outerNo = 1,
                                          !.lastMethod = r.msg.Method]
                  /\ pc' = IF piper.AdditionalChallenge THEN "chalWrite"
                           ELSE "findUpstream"
                  /\ UNCHANGED <<ret, downClosed, upClosed>>
    /\ UNCHANGED <<piper, added, mappedUser, userAuthMsg, packet, upOpened, authVars,
                   pipeVars>>

\* lines 120-126: the failure that asks for keyboard-interactive
ChallengeWrite ==
    /\ pc = "chalWrite"
    /\ \E ok \in BOOLEAN :
         IF ok
         THEN /\ downLast' = challengeFailureMsg
              /\ chal' = [chal EXCEPT
                    !.failed = @ \cup {chal.readNo},
                    !.failedKI = @ \cup (IF chal.lastMethod = "keyboard-interactive"
                                         THEN {chal.readNo} ELSE {})]
              /\ pc' = "chalRead"
              /\ UNCHANGED <<ret, downClosed, upClosed>>
         ELSE /\ ReturnError(FALSE)
              /\ UNCHANGED <<downLast, chal>>
    /\ UNCHANGED <<piper, added, userAuthReq, dUser, mappedUser, userAuthMsg, packet,
                   upOpened, upLast, findUpstreamCalls, challengeResult, downReq,
                   relay, pipeVars>>

\* lines 128-136: the next request, kept in a variable of the loop body only
ChallengeRead ==
    /\ pc = "chalRead"
    /\ chal.readNo <= MaxChallengeReads
    /\ \E rd \in DownReads :
         LET r == nextAuthMsg(rd)
         IN  IF r.err
             THEN /\ ReturnError(FALSE)
                  /\ UNCHANGED chal
             ELSE /\ chal' = [chal EXCEPT !.readNo = @ + 1,
                                          !.lastMethod = r.msg.Method]
                  /\ pc' = IF challengeSatisfied(r.msg.Method)
                           THEN "chalCall" ELSE "chalWrite"
                  /\ UNCHANGED <<ret, downClosed, upClosed>>
    /\ UNCHANGED <<piper, added, userAuthReq, dUser, mappedUser, userAuthMsg, packet,
                   upOpened, authVars, pipeVars>>

\* lines 139-148: the callback, which may prompt the downstream
ChallengeCall ==
    /\ pc = "chalCall"
    /\ \E ok \in BOOLEAN, err \in BOOLEAN, prompted \in BOOLEAN :
         /\ challengeResult' = IF err THEN "error" ELSE IF ok THEN "true" ELSE "false"
         /\ chal' = [chal EXCEPT !.calls = @ + 1]
         /\ downLast' = IF prompted THEN <<Byte("SSH_MSG_USERAUTH_INFO_REQUEST")>>
                        ELSE downLast
         /\ IF challengePassed(ok, err)
            THEN /\ pc' = "findUpstream"
                 /\ UNCHANGED <<ret, downClosed, upClosed>>
            ELSE ReturnError(FALSE)
    /\ UNCHANGED <<piper, added, userAuthReq, dUser, mappedUser, userAuthMsg, packet,
                   upOpened, upLast, findUpstreamCalls, downReq, relay, pipeVars>>

\* lines 151-160
FindUpstream ==
    /\ pc = "findUpstream"
    /\ findUpstreamCalls' = findUpstreamCalls + 1
    /\ \E err \in BOOLEAN, name \in UpstreamNames :
         IF err
         THEN /\ ReturnError(FALSE)
              /\ UNCHANGED <<upOpened, mappedUser>>
         ELSE /\ upOpened' = TRUE
              /\ mappedUser' = IF name = "" THEN dUser ELSE name
              /\ pc' = "newUpstream"
              /\ UNCHANGED <<ret, downClosed, upClosed>>
    /\ UNCHANGED <<piper, added, chal, userAuthReq, dUser, userAuthMsg, packet, upLast,
                   downLast, challengeResult, downReq, relay, pipeVars>>

\* newUpstream, lines 162-175 and 465-479
NewUpstream ==
    /\ pc = "newUpstream"
    /\ \E ok \in BOOLEAN :
         IF ok
         THEN /\ pc' = "sendAuthReq"
              /\ UNCHANGED <<ret, downClosed, upClosed>>
         ELSE /\ pc' = "done"
              /\ ret' = "error"
              /\ upClosed' = TRUE
              /\ downClosed' = deferCloseDownstream(TRUE, downClosed)
    /\ UNCHANGED <<piper, added, chal, userAuthReq, dUser, mappedUser, userAuthMsg, packet,
                   upOpened, authVars, pipeVars>>

(***************************************************************************)
(* pipeAuth.                                                               *)
(***************************************************************************)
\* lines 226 and 385-390 and sendAuthReq, lines 431-446: the userAuthReq of
\* NewSSHPiperConn becomes the userAuthMsg of pipeAuth and is not read again
SendAuthReq ==
    /\ pc = "sendAuthReq"
    /\ \E written \in BOOLEAN, accepted \in BOOLEAN :
         /\ upLast' = IF written
                      THEN <<Byte("SSH_MSG_SERVICE_REQUEST"), Str("ssh-userauth")>>
                      ELSE upLast
         /\ IF written /\ accepted
            THEN /\ userAuthMsg' = userAuthReq
                 /\ downReq' = userAuthReq
                 /\ userAuthReq' = NoMsg
                 /\ pc' = "processAuthMsg"
                 /\ UNCHANGED <<ret, downClosed, upClosed>>
            ELSE /\ ReturnError(TRUE)
                 /\ UNCHANGED <<userAuthReq, userAuthMsg, downReq>>
    /\ UNCHANGED <<piper, added, chal, dUser, mappedUser, packet, upOpened,
                   downLast, findUpstreamCalls, challengeResult, relay, pipeVars>>

\* lines 394-398: the transform, with all it writes to either transport
ProcessAuthMsg ==
    /\ pc = "processAuthMsg"
    /\ \E mapResult \in MapResults, probeOutcome \in ProbeOutcomes,
          ackOk \in BOOLEAN, signOk \in BOOLEAN :
         LET o == processAuthMsg(userAuthMsg, mappedUser, piper.MapPublicKey,
                                 mapResult, probeOutcome, ackOk, signOk)
         IN  /\ upLast' = IF o.probe # <<>> THEN o.probe ELSE upLast
             /\ downLast' = IF o.ack # <<>> THEN o.ack ELSE downLast
             /\ relay' = [relay EXCEPT
                   !.answers = @ + (IF o.ack # <<>> THEN 1 ELSE 0),
                   !.mapCalls = @ + (IF o.mapCalled THEN 1 ELSE 0),
                   !.signer = IF ~o.mapCalled THEN "none"
                              ELSE IF mapResult.err THEN NoKey ELSE mapResult.signer,
                   !.probe = o.validated,
                   !.xform = IF o.err THEN "fail"
                             ELSE IF o.msg = NoMsg THEN "handled" ELSE "forward",
                   !.outstanding = @ + (IF o.probe # <<>> /\ probeOutcome = "readError"
                                        THEN 1 ELSE 0)]
             /\ IF o.err
                THEN /\ ReturnError(TRUE)
                     /\ UNCHANGED userAuthMsg
                ELSE /\ userAuthMsg' = o.msg
                     /\ pc' = IF o.msg = NoMsg THEN "nextAuthMsg" ELSE "upWrite"
                     /\ UNCHANGED <<ret, downClosed, upClosed>>
    /\ UNCHANGED <<piper, added, chal, userAuthReq, dUser, mappedUser, packet, upOpened,
                   findUpstreamCalls, challengeResult, downReq, pipeVars>>

\* lines 401-405: the transformed request goes to upstream
PipeAuthWrite ==
    /\ pc = "upWrite"
    /\ \E ok \in BOOLEAN :
         IF ok
         THEN /\ upLast' = MarshalUserAuthRequest(userAuthMsg)
              /\ relay' = [relay EXCEPT !.outstanding = @ + 1, !.fwd = relay.cur]
              /\ pc' = "upRead"
              /\ UNCHANGED <<ret, downClosed, upClosed>>
         ELSE /\ ReturnError(TRUE)
              /\ UNCHANGED <<upLast, relay>>
    /\ UNCHANGED <<piper, added, chal, userAuthReq, dUser, mappedUser, userAuthMsg, packet,
                   upOpened, downLast, findUpstreamCalls, challengeResult, downReq,
                   pipeVars>>

\* lines 407-410: one packet is read from upstream
PipeAuthRead ==
    /\ pc = "upRead"
    /\ \E rd \in UpReads :
         IF rd.err
         THEN /\ ReturnError(TRUE)
              /\ UNCHANGED <<packet, relay>>
         ELSE /\ packet' = rd.packet
              /\ relay' = [relay EXCEPT !.outstanding = @ - 1]
              /\ pc' = "downWrite"
              /\ UNCHANGED <<ret, downClosed, upClosed>>
    /\ UNCHANGED <<piper, added, chal, userAuthReq, dUser, mappedUser, userAuthMsg, upOpened,
                   upLast, downLast, findUpstreamCalls, challengeResult, downReq,
                   pipeVars>>

\* lines 412-420 and 226-231: the packet goes to downstream; on success
\* pipeAuth returns nil and NewSSHPiperConn returns the pipe
PipeAuthRelay ==
    /\ pc = "downWrite"
    /\ \E ok \in BOOLEAN :
         IF ok
         THEN /\ downLast' = packet
              /\ relay' = [relay EXCEPT !.answers = @ + 1]
              /\ IF isSuccess(packet)
                 THEN /\ pc' = "done"
                      /\ ret' = "pipe"
                      /\ downClosed' = deferCloseDownstream(FALSE, downClosed)
                      /\ upClosed' = deferCloseUpstream(FALSE, upClosed)
                 ELSE /\ pc' = "nextAuthMsg"
                      /\ UNCHANGED <<ret, downClosed, upClosed>>
         ELSE /\ ReturnError(TRUE)
              /\ UNCHANGED <<downLast, relay>>
    /\ UNCHANGED <<piper, added, chal, userAuthReq, dUser, mappedUser, userAuthMsg, packet,
                   upOpened, upLast, findUpstreamCalls, challengeResult, downReq,
                   pipeVars>>

\* lines 423-426: the next downstream request
PipeAuthNext ==
    /\ pc = "nextAuthMsg"
    /\ relay.nRead < MaxReqs
    /\ \E rd \in DownReads :
         LET r == nextAuthMsg(rd)
         IN  IF r.err
             THEN /\ ReturnError(TRUE)
                  /\ UNCHANGED <<userAuthMsg, downReq, relay>>
             ELSE /\ userAuthMsg' = r.msg
                  /\ downReq' = r.msg
                  /\ relay' = [relay EXCEPT !.nRead = @ + 1, !.cur = @ + 1,
                                            !.answers = 0, !.mapCalls = 0,
                                            !.signer = "none", !.probe = "none",
                                            !.xform = "none"]
                  /\ pc' = "processAuthMsg"
                  /\ UNCHANGED <<ret, downClosed, upClosed>>
    /\ UNCHANGED <<piper, added, chal, userAuthReq, dUser, mappedUser, packet, upOpened,
                   upLast, downLast, findUpstreamCalls, challengeResult, pipeVars>>

(***************************************************************************)
(* The packet pipe: Wait, loop, piping and Close.                          *)
(***************************************************************************)
\* lines 366 and 370 with the slip of piping both ways into upstream
pipingDst_Upstream(d) == "up"

\* lines 366 and 370: the transports each goroutine of loop pipes between
pipingDst(d) == IF d = "toUp" THEN "up" ELSE "down"
pipingSrc(d) == IF d = "toUp" THEN "down" ELSE "up"

isClosed(t) == IF t = "up" THEN upClosed ELSE downClosed

\* a receive that takes the sender that came last
chanRecv_Last(q) == q[Len(q)]

\* what the first of the senders waiting on c hands to the receiver
chanRecv(q) == Head(q)

\* transport.Close(): the state of a socket after it
transportClose(closed) == TRUE

\* "c <- piping(...)": piping has returned err and the goroutine sends it on c
SendOnChan(d, err) ==
    /\ copier' = [copier EXCEPT ![d] = [pc |-> "send", p |-> NoPkt]]
    /\ c' = Append(c, [from |-> d, err |-> err])
    /\ reported' = Append(reported, err)

\* Wait, lines 64-66, and the start of loop, lines 363-373.  The frame of
\* NewSSHPiperConn is gone by now, and what was observed of the auth phase
\* (the last packets, the counters of the relay) is dropped: the pipe keeps
\* its own record in pipeRead and pipeWritten.
Wait ==
    /\ ret = "pipe"
    /\ loopPc = "idle"
    /\ loopPc' = "waiting"
    /\ copier' = [d \in Dirs |-> [pc |-> "read", p |-> NoPkt]]
    /\ userAuthReq' = NoMsg
    /\ userAuthMsg' = NoMsg
    /\ packet' = <<>>
    /\ upLast' = <<>>
    /\ downLast' = <<>>
    /\ downReq' = NoMsg
    /\ relay' = RelayInit
    /\ chal' = ChalInit
    /\ UNCHANGED <<piper, added, pc, ret, dUser, mappedUser, sockVars, findUpstreamCalls,
                   challengeResult, c, reported, waitErr, pipeRead, pipeWritten,
                   closeCalls, closedAgain>>

\* piping, lines 348-352: the read of the next packet of the source
PipingRead(d) ==
    /\ copier[d].pc = "read"
    /\ LET src == pipingSrc(d)
           next == [origin |-> src, n |-> Len(pipeRead[src]) + 1]
       IN  \E ok \in BOOLEAN :
             IF ok /\ ~isClosed(src) /\ Len(pipeRead[src]) < MaxPipePkts
             THEN /\ copier' = [copier EXCEPT ![d] = [pc |-> "write", p |-> next]]
                  /\ pipeRead' = [pipeRead EXCEPT ![src] = Append(@, next)]
                  /\ UNCHANGED <<c, reported>>
             ELSE /\ ~ok \/ isClosed(src)
                  /\ SendOnChan(d, <<d, "read">>)
                  /\ UNCHANGED pipeRead
    /\ UNCHANGED <<piper, added, chal, frameVars, sockVars, authVars, loopPc, waitErr,
                   pipeWritten, closeCalls, closedAgain>>

\* piping, lines 353-358: the write of the packet to the destination
PipingWrite(d) ==
    /\ copier[d].pc = "write"
    /\ LET dst == pipingDst(d)
       IN  \E ok \in BOOLEAN :
             IF ok /\ ~isClosed(dst)
             THEN /\ pipeWritten' = [pipeWritten EXCEPT ![dst] = Append(@, copier[d].p)]
                  /\ copier' = [copier EXCEPT ![d] = [pc |-> "read", p |-> NoPkt]]
                  /\ UNCHANGED <<c, reported>>
             ELSE /\ SendOnChan(d, <<d, "write">>)
                  /\ UNCHANGED pipeWritten
    /\ UNCHANGED <<piper, added, chal, frameVars, sockVars, authVars, loopPc, waitErr,
                   pipeRead, closeCalls, closedAgain>>

\* loop, lines 373-377: the receive from c, the deferred Close and the return
LoopReturn ==
    /\ loopPc = "waiting"
    /\ c # <<>>
    /\ LET m == chanRecv(c)
       IN  /\ waitErr' = m.err
           /\ c' = SelectSeq(c, LAMBDA x : x # m)
           /\ copier' = [copier EXCEPT ![m.from] = [pc |-> "done", p |-> NoPkt]]
    /\ upClosed' = transportClose(upClosed)
    /\ downClosed' = transportClose(downClosed)
    /\ loopPc' = "returned"
    /\ UNCHANGED <<piper, added, chal, frameVars, upOpened, authVars, reported, pipeRead,
                   pipeWritten, closeCalls, closedAgain>>

\* SSHPiperConn.Close, lines 69-71 and 379-382
Close ==
    /\ ret = "pipe"
    /\ closeCalls < MaxClose
    /\ closeCalls' = closeCalls + 1
    /\ closedAgain' = (closedAgain \/ loopPc = "returned")
    /\ upClosed' = transportClose(upClosed)
    /\ downClosed' = transportClose(downClosed)
    /\ UNCHANGED <<piper, added, chal, frameVars, upOpened, authVars, loopPc, copier, c,
                   reported, waitErr, pipeRead, pipeWritten>>

Next ==
    \/ NewDownstream
    \/ FirstAuthMsg
    \/ ChallengeWrite
    \/ ChallengeRead
    \/ ChallengeCall
    \/ FindUpstream
    \/ NewUpstream
    \/ SendAuthReq
    \/ ProcessAuthMsg
    \/ PipeAuthWrite
    \/ PipeAuthRead
    \/ PipeAuthRelay
    \/ PipeAuthNext
    \/ Wait
    \/ \E d \in Dirs : PipingRead(d)
    \/ \E d \in Dirs : PipingWrite(d)
    \/ LoopReturn
    \/ Close

Spec == Init /\ [][Next]_vars

(***************************************************************************)
(* The set-up of a config: AddHostKey on a new SSHPiperConfig.             *)
(***************************************************************************)
\* a new SSHPiperConfig: no host key yet
HostKeyInit ==
    /\ piper \in [AdditionalChallenge : BOOLEAN, MapPublicKey : BOOLEAN,
                  hostKeys : {<<>>}]
    /\ added = <<>>
    /\ ConnInit

\* s.AddHostKey(key)
ConfigAddHostKey ==
    /\ Len(added) < MaxAdds
    /\ \E key \in HostKeyPool :
          /\ piper' = [piper EXCEPT !.hostKeys = AddHostKey(@, key)]
          /\ added' = Append(added, key)
    /\ UNCHANGED <<frameVars, sockVars, authVars, chal, pipeVars>>

HostKeyNext == ConfigAddHostKey

HostKeySpec == HostKeyInit /\ [][HostKeyNext]_vars

(***************************************************************************)
(* Properties.                                                             *)
(***************************************************************************)
\* the last packet written to upstream, read as a USERAUTH_REQUEST
UpLastReq == UnmarshalUserAuthRequest(upLast)

\* the packet carries a signature made with a key of the downstream client
HasDownstreamSig(pkt) ==
    \E i \in 1..Len(pkt) : pkt[i].t = "sig" /\ pkt[i].s.By \in DownKeys

\* the relay has written the transform of the request it is handling to upstream
ForwardedCurrent == relay.fwd = relay.cur /\ UpLastReq.ok

IsPrefix(a, b) == Len(a) <= Len(b) /\ a = SubSeq(b, 1, Len(a))

\* C1: every USERAUTH_REQUEST written to the upstream transport during the
\* auth relay has its user field equal to mappedUser, in every branch of the
\* transform (passthrough, re-signed, probe and every substituted "none").
C1_UpstreamUserIsMapped ==
    UpLastReq.ok => UpLastReq.msg.User = mappedUser

\* C2 as stated: whether MapPublicKey is configured or not, no packet
\* written to upstream during the auth relay carries a signature made by the
\* downstream client.
C2_NeverDownstreamSig == ~HasDownstreamSig(upLast)

\* C2 amended: when MapPublicKey is configured, no packet written to
\* upstream during the auth relay carries a signature made by the downstream
\* client.
C2_NoDownstreamSigWhenMapped ==
    piper.MapPublicKey => ~HasDownstreamSig(upLast)

\* a signed downstream publickey request was transformed and forwarded with
\* MapPublicKey configured
C2_Witness ==
    /\ piper.MapPublicKey
    /\ HasDownstreamSig(MarshalUserAuthRequest(downReq))
    /\ ForwardedCurrent

\* the request the proxy's signer k signs for the mapped user
ResignedRequest(k) ==
    [User |-> mappedUser, Service |-> serviceSSH, Method |-> "publickey",
     Payload |->
        <<Byte("1"), Str(KeyType(k)), Str(MarshalKey(k)),
          SigItem(Sign(k, buildDataSignedForAuth(UpSessionID,
                [User |-> mappedUser, Service |-> serviceSSH,
                 Method |-> "publickey"],
                KeyType(k), MarshalKey(k))))>>]

\* the last request written to upstream is a signed publickey request made
\* with MapPublicKey configured
UpLastIsResigned ==
    /\ piper.MapPublicKey
    /\ UpLastReq.ok
    /\ UpLastReq.msg.Method = "publickey"
    /\ Len(UpLastReq.msg.Payload) >= 1
    /\ UpLastReq.msg.Payload[1] = Byte("1")

\* the signature of the downstream request being handled verifies with the
\* downstream key over the downstream session identifier
DownReqVerifies ==
    LET parsed == parsePublicKeyMsg(downReq)
    IN  /\ ~parsed.err
        /\ ~parsed.isQuery
        /\ Verify(parsed.key,
                  buildDataSignedForAuth(DownSessionID, downReq,
                        KeyType(parsed.key), MarshalKey(parsed.key)),
                  parsed.sig)

\* C3: with MapPublicKey configured, a signed publickey request written to
\* upstream has user = mappedUser, the algorithm and key of the signer,
\* hasSig = true and a signature by that signer over the blob built from the
\* upstream session identifier, mappedUser, "ssh-connection", "publickey" and
\* the signer's key; and it is written only for a downstream request whose
\* signature verified against the downstream session identifier, after
\* MapPublicKey was called.
C3_ResignedAfterVerify ==
    UpLastIsResigned =>
        /\ \E k \in Signers :
              /\ UpLastReq.msg = ResignedRequest(k)
              /\ Verify(k, buildDataSignedForAuth(UpSessionID, UpLastReq.msg,
                                KeyType(k), MarshalKey(k)),
                        UpLastReq.msg.Payload[4].s)
        /\ ~HasDownstreamSig(upLast)
        /\ ForwardedCurrent => (DownReqVerifies /\ relay.mapCalls = 1)

\* a re-signed request was written for the downstream request being handled,
\* with a mapped user other than the downstream user
C3_Witness ==
    /\ UpLastIsResigned
    /\ ForwardedCurrent
    /\ mappedUser # downReq.User

\* C4: FindUpstream is invoked at most once, and with AdditionalChallenge
\* configured only after the challenge returned (true, no error).
C4_FindUpstreamOnceAfterChallenge ==
    /\ findUpstreamCalls <= 1
    /\ (piper.AdditionalChallenge /\ findUpstreamCalls > 0)
          => challengeResult = "true"
    /\ challengeResult \in {"false", "error"} => findUpstreamCalls = 0

\* FindUpstream was invoked in a session with AdditionalChallenge configured
C4_Witness ==
    /\ piper.AdditionalChallenge
    /\ findUpstreamCalls = 1

\* C5: NewSSHPiperConn returns the pipe only if the packet read from
\* upstream in reply to the forwarded request was USERAUTH_SUCCESS, that
\* packet was written to downstream, and the challenge, when configured,
\* returned true.
C5_PipeOnlyAfterSuccess ==
    (ret = "pipe" /\ loopPc = "idle") =>
        /\ packet = <<Byte(msgUserAuthSuccess)>>
        /\ downLast = packet
        /\ ForwardedCurrent
        /\ upLast = MarshalUserAuthRequest(userAuthMsg)
        /\ piper.AdditionalChallenge => challengeResult = "true"

\* the pipe was returned in a session with AdditionalChallenge configured
C5_Witness ==
    /\ ret = "pipe"
    /\ loopPc = "idle"
    /\ piper.AdditionalChallenge

\* C6: when NewSSHPiperConn returns an error, the downstream socket is
\* closed, and so is the upstream socket if FindUpstream returned one.
C6_ErrorClosesSockets ==
    ret = "error" => (downClosed /\ (upOpened => upClosed))

\* an error was returned after FindUpstream had returned a connection
C6_Witness ==
    /\ ret = "error"
    /\ upOpened

\* C7: when Wait has returned, it returned the first error sent on the
\* channel and both transports are closed, also after a further Close.
C7_WaitReturnsFirstError ==
    loopPc = "returned" =>
        /\ reported # <<>>
        /\ waitErr = reported[1]
        /\ upClosed
        /\ downClosed

\* Wait returned, both copiers reported an error and Close was called again
C7_Witness ==
    /\ loopPc = "returned"
    /\ Len(reported) = 2
    /\ closedAgain

\* C8: once Wait has returned, no copier is left blocked on handing its
\* result to the channel; in loop nothing receives from c after the return,
\* so a copier found sending then stays there for ever.
C8_NoCopierBlockedOnSend ==
    loopPc = "returned" => \A d \in Dirs : copier[d].pc # "send"

\* C9: in each direction the packets written to the destination are a
\* prefix of the packets read from the source, at most one packet behind,
\* and no packet is written to the transport it was read from.
C9_PipePreservesOrder ==
    /\ IsPrefix(pipeWritten["up"], pipeRead["down"])
    /\ IsPrefix(pipeWritten["down"], pipeRead["up"])
    /\ Len(pipeRead["down"]) - Len(pipeWritten["up"]) <= 1
    /\ Len(pipeRead["up"]) - Len(pipeWritten["down"]) <= 1
    /\ \A t \in Transports : \A i \in 1..Len(pipeWritten[t]) :
          pipeWritten[t][i].origin # t

\* two packets went to upstream and two to downstream
C9_Witness ==
    /\ Len(pipeWritten["up"]) >= 2
    /\ Len(pipeWritten["down"]) >= 2

\* C10: at most one request written to upstream awaits its reply; when the
\* relay reads the next downstream request it has written exactly one answer
\* to downstream for the one it was handling; requests reach upstream in the
\* order the downstream sent them.
C10_StrictlySequential ==
    /\ relay.outstanding <= 1
    /\ pc = "nextAuthMsg" => relay.answers = 1
    /\ relay.fwd <= relay.cur

\* the downstream request being handled, parsed as a publickey request
DownReqParsed == parsePublicKeyMsg(downReq)

\* C11: for a publickey query whose key MapPublicKey maps to a signer and
\* whose substitute key the upstream accepts in the probe, the transform
\* returns (nil, nil) after one packet was written to downstream, a PK_OK
\* with the algorithm and blob of the DOWNSTREAM key; the last packet written
\* to upstream is the probe, no transformed request is written for this
\* downstream request and the relay goes on to read the next one.  (When the
\* write of the PK_OK fails the transform fails and nothing was written.)
C11_QueryAcceptedIsAcked ==
    relay.probe = "ack" =>
        /\ DownReqParsed.isQuery
        /\ relay.signer \in Signers
        /\ upLast = validateKeyProbe(relay.signer, mappedUser)
        /\ relay.fwd < relay.cur
        /\ relay.xform \in {"handled", "fail"}
        /\ relay.xform = "fail" => (ret = "error" /\ relay.answers = 0)
        /\ relay.xform = "handled" =>
              /\ relay.answers = 1
              /\ downLast = MarshalPubKeyOk(KeyType(DownReqParsed.key),
                                            MarshalKey(DownReqParsed.key))
              /\ downLast # MarshalPubKeyOk(KeyType(relay.signer),
                                            MarshalKey(relay.signer))
              /\ userAuthMsg = NoMsg
              /\ ret = "none" => pc = "nextAuthMsg"

\* a query was acknowledged and the relay is about to read the next request
C11_Witness ==
    /\ relay.probe = "ack"
    /\ relay.xform = "handled"
    /\ pc = "nextAuthMsg"

\* one of the soft conditions holds for the request being handled:
\* MapPublicKey gave no signer, the upstream rejected the probed key, or the
\* downstream signature does not verify
SoftNoSigner == relay.mapCalls = 1 /\ relay.signer = NoKey
SoftRejected == relay.probe = "reject"
SoftBadSignature ==
    /\ relay.mapCalls = 1
    /\ relay.signer \in Signers
    /\ ~DownReqParsed.err
    /\ ~DownReqParsed.isQuery
    /\ ~DownReqVerifies

\* the request being handled got a "none" request in its place, which (once
\* written) is the last packet written to upstream, and the packet read from
\* upstream in reply is what was written to downstream; then the relay reads
\* the next downstream request, unless the reply was USERAUTH_SUCCESS
NoneSubstituted ==
    /\ relay.xform = "forward"
    /\ userAuthMsg.Method = "none"
    /\ userAuthMsg.Service = serviceSSH
    /\ userAuthMsg.Payload = <<>>
    /\ relay.fwd = relay.cur => upLast = MarshalUserAuthRequest(userAuthMsg)
    /\ relay.answers <= 1
    /\ relay.answers = 1 =>
          /\ downLast = packet
          /\ relay.fwd = relay.cur
          /\ IF isSuccess(packet) THEN ret = "pipe"
             ELSE ret = "none" => pc = "nextAuthMsg"

\* C12: with MapPublicKey configured, when MapPublicKey returns no signer or
\* an error, when the downstream signature does not verify, and when the
\* upstream rejects the probed key, the transform does not fail: a request
\* of method "none" with an empty payload is forwarded, the reply is relayed
\* as it was read and the relay goes on.
C12_SoftConditionsGiveNone ==
    (SoftNoSigner \/ SoftRejected \/ SoftBadSignature) => NoneSubstituted

\* each soft condition was met and answered by the upstream's reply
C12_Witness ==
    /\ SoftRejected
    /\ relay.answers = 1
    /\ pc = "nextAuthMsg"

\* the request being handled is a publickey request naming an algorithm
\* that is not on the allow-list, in its algorithm field or in the format of
\* its signature
NamesUnacceptableAlgo ==
    /\ downReq.Method = "publickey"
    /\ Len(downReq.Payload) >= 3
    /\ \/ /\ downReq.Payload[2].t = "string"
          /\ ~isAcceptableAlgo(downReq.Payload[2].v)
       \/ /\ Len(downReq.Payload) >= 4
          /\ downReq.Payload[4].t = "sig"
          /\ ~isAcceptableAlgo(downReq.Payload[4].s.Format)

\* C13: with MapPublicKey configured, a publickey request naming an
\* algorithm that is not on the allow-list is replaced by a "none" request
\* and never makes the transform fail.
C13_UnacceptableAlgoIsSoft ==
    (piper.MapPublicKey /\ relay.xform # "none" /\ NamesUnacceptableAlgo) =>
        /\ relay.xform = "forward"
        /\ userAuthMsg.Method = "none"

\* the payload has one of the two exact shapes of a publickey request
ExactShape(payload) ==
    \/ /\ Len(payload) = 3
       /\ payload[1] = Byte("0")
       /\ payload[2].t = "string"
       /\ payload[3].t = "string"
    \/ /\ Len(payload) = 4
       /\ payload[1] = Byte("1")
       /\ payload[2].t = "string"
       /\ payload[3].t = "string"
       /\ payload[4].t = "sig"

\* C14: with MapPublicKey configured, a publickey request whose payload has
\* neither of the two exact shapes (flag 0, algorithm, key blob; flag 1,
\* algorithm, key blob, one signature) gives a parse error, and the
\* transform fails and the auth relay is aborted.
C14_OnlyExactShapesParse ==
    (/\ piper.MapPublicKey
     /\ relay.xform # "none"
     /\ downReq.Method = "publickey"
     /\ ~ExactShape(downReq.Payload)) =>
        /\ DownReqParsed.err
        /\ relay.xform = "fail"
        /\ ret = "error"

\* C18: in the query branch an I/O error of the probe (validateKey returns
\* an error) makes the transform fail and the relay abort with that error.
C18_ProbeErrorIsFatal ==
    relay.probe \in {"writeError", "readError"} =>
        /\ relay.xform = "fail"
        /\ ret = "error"

\* C16: while the relay handles a downstream request whose method is not
\* "publickey", or any request when MapPublicKey is not configured, the
\* transform forwards the request with the same service, method and payload
\* and the user set to mappedUser, MapPublicKey is not invoked, no probe is
\* made, the packet written to upstream is that request, and the one packet
\* written to downstream for it is the packet read from upstream.
C16_OtherRequestsPassThrough ==
    (/\ relay.xform # "none"
     /\ downReq.Method # "publickey" \/ ~piper.MapPublicKey) =>
        /\ relay.xform = "forward"
        /\ userAuthMsg = [User |-> mappedUser, Service |-> downReq.Service,
                          Method |-> downReq.Method, Payload |-> downReq.Payload]
        /\ relay.mapCalls = 0
        /\ relay.probe = "none"
        /\ relay.fwd = relay.cur => upLast = MarshalUserAuthRequest(userAuthMsg)
        /\ relay.answers <= 1
        /\ relay.answers = 1 => (downLast = packet /\ relay.fwd = relay.cur)

\* a password request was forwarded and its reply relayed
C16_Witness ==
    /\ relay.xform = "forward"
    /\ downReq.Method = "password"
    /\ piper.MapPublicKey
    /\ relay.answers = 1
    /\ upLast = MarshalUserAuthRequest([downReq EXCEPT !.User = mappedUser])

\* the request being handled was written to upstream and the one packet
\* read from upstream for it and written to downstream was a banner: the
\* upstream's terminal reply to the request has not been read, and a
\* downstream that waits for a terminal reply sends nothing
TerminalReplyUnread ==
    /\ relay.fwd = relay.cur
    /\ relay.answers = 1
    /\ packet = <<Byte(msgUserAuthBanner)>>
    /\ downLast = packet

\* C20: the relay is never at the read of the next downstream request while
\* the upstream's terminal reply (USERAUTH_SUCCESS or USERAUTH_FAILURE) to
\* the request it forwarded is unread.
C20_NoReadWhileReplyUnread ==
    (pc = "nextAuthMsg" /\ ret = "none") => ~TerminalReplyUnread

\* C17 as stated: the failure that asks for keyboard-interactive is never
\* the answer to a request whose method is keyboard-interactive, the first
\* request of the session included.
C17_FailureOnlyForOtherMethods ==
    chal.failedKI = {}

\* NewSSHPiperConn is past the challenge loop and has not returned an error
PastChallenge ==
    /\ ret = "none"
    /\ pc \notin {"newDownstream", "firstAuthMsg", "chalWrite", "chalRead", "chalCall"}

\* C17, amended: with AdditionalChallenge configured the failure that asks
\* for keyboard-interactive answers the first request of the session
\* whatever its method, and after it every request read whose method is not
\* keyboard-interactive; a keyboard-interactive request read after the first
\* is not answered with it; the callback is invoked at most once, only after
\* such a request has been read, and exactly once before FindUpstream.
\* Without AdditionalChallenge no such failure is written and there is no
\* call.
C17_FailureForFirstAndOtherMethods ==
    /\ ~piper.AdditionalChallenge => (chal.failed = {} /\ chal.calls = 0)
    /\ chal.failedKI \subseteq {1}
    /\ chal.failed \subseteq 1..chal.readNo
    /\ chal.calls <= 1
    /\ pc = "chalRead" => chal.failed = 1..chal.readNo
    /\ (pc = "chalCall" \/ chal.calls = 1) =>
          /\ chal.lastMethod = "keyboard-interactive"
          /\ chal.readNo >= 2
          /\ chal.failed = 1..(chal.readNo - 1)
    /\ (piper.AdditionalChallenge /\ PastChallenge) => chal.calls = 1

\* the first request asked for keyboard-interactive and was answered with
\* the failure; a later keyboard-interactive request led to the one call
C17_Witness ==
    /\ chal.failedKI = {1}
    /\ chal.calls = 1
    /\ chal.readNo = 3
    /\ chal.failed = {1, 2}
    /\ pc = "findUpstream"

\* C19: with AdditionalChallenge configured, the request the auth relay
\* starts with is the request read last by the challenge loop, and it is not
\* one the proxy has answered with the failure that asks for
\* keyboard-interactive.
C19_RelayStartsWithLastRequest ==
    (/\ piper.AdditionalChallenge
     /\ relay.cur = 1
     /\ pc \in {"processAuthMsg", "upWrite", "upRead", "downWrite"}) =>
        /\ chal.outerNo = chal.readNo
        /\ chal.outerNo \notin chal.failed

\* the calls of AddHostKey so far that gave a key of algorithm t
AddsOf(t) == { n \in 1..Len(added) : added[n].type = t }
FirstAdd(t) == CHOOSE n \in AddsOf(t) : \A m \in AddsOf(t) : n <= m
LastAdd(t) == CHOOSE n \in AddsOf(t) : \A m \in AddsOf(t) : n >= m

\* C15: after any sequence of AddHostKey calls the host-key list holds at
\* most one key per algorithm; it holds a key of an algorithm exactly when
\* one was added, and that key is the one added last for the algorithm; the
\* entries stand in the order in which their algorithms were first added
\* (an added key of a present algorithm takes the place of the old one, a
\* key of a new algorithm goes to the end).
C15_OneHostKeyPerAlgorithm ==
    LET hk == piper.hostKeys
    IN  /\ \A i, j \in 1..Len(hk) : hk[i].type = hk[j].type => i = j
        /\ { hk[i].type : i \in 1..Len(hk) } = { added[n].type : n \in 1..Len(added) }
        /\ \A i \in 1..Len(hk) : hk[i] = added[LastAdd(hk[i].type)]
        /\ \A i, j \in 1..Len(hk) :
              i < j => FirstAdd(hk[i].type) < FirstAdd(hk[j].type)

\* a key replaced the first entry in place after a second algorithm had
\* been appended
C15_Witness ==
    /\ Len(added) = 3
    /\ Len(piper.hostKeys) = 2
    /\ added[1].type = added[3].type
    /\ added[1] # added[3]
    /\ piper.hostKeys = <<added[3], added[2]>>

=============================================================================
